---- MODULE Spec2Model ----
(***************************************************************************)
(* yasnoch: a night-sky forecast bot (src/app.py, src/providers.py).       *)
(*                                                                         *)
(* One report build (build_message) computes the night window, awaits all  *)
(* enabled providers concurrently, fuses their hourly samples, applies the *)
(* moon filter, extracts the viewing windows and formats the report.       *)
(* Operator commands mutate the module-level configuration globals.        *)
(*                                                                         *)
(* Conventions of the model                                                *)
(*  - a datetime is an integer number of milliseconds since local midnight *)
(*    of the report date; a provider timestamp (epoch seconds) is an       *)
(*    integer number of seconds since the same instant;                    *)
(*  - a float is an exact rational <<n, d>> with d > 0, in lowest terms;   *)
(*    <<0, 0>> is NaN;                                                     *)
(*  - a dict is a function; every consumer of the consensus dict in the    *)
(*    source either sorts its keys or is insensitive to their order.       *)
(***************************************************************************)
EXTENDS Integers, Sequences, FiniteSets, TLC

VARIABLES
    CLOUD_THRESHOLD,        \* app.py:68, float
    PRECIP_THRESHOLD,       \* app.py:69, float
    MIN_WINDOW_HOURS,       \* app.py:70, float, set from the environment only
    CLEAR_NIGHT_THRESHOLD,  \* app.py:71, float
    USE_MOON_FILTER,        \* app.py:75, bool
    DAILY_NOTIFY_HOUR,      \* app.py:73
    DAILY_NOTIFY_MINUTE,    \* app.py:74
    api_keys,               \* app.py:61-63, the optional providers whose key is set
    job_trigger,            \* the CronTrigger <<hour, minute>> of scheduler job "daily_job"
    last_update,            \* the command and context.args of the last handled update
    reply,                  \* what the last handler sent: "none", "ok", "usage", "raised"
    pc,                     \* position of the report build: "idle", "fetching", "done"
    astro,                  \* what astral computes for the report date (sun and moon)
    dusk, dawn,             \* night_window's result
    names,                  \* build_active_providers' names
    batches,                \* per provider: the state of its fetch_hours task
    averaged, contrib,      \* fetch_all_providers' result
    averaged2,              \* filter_by_moon's result
    windows,                \* summarize_windows' result
    report,                 \* fmt_report's result
    error,                  \* the exception that left build_message, or NoError
    cfg_at_start            \* history: the configuration when build_message was entered;
                            \* no action reads it

config == <<CLOUD_THRESHOLD, PRECIP_THRESHOLD, CLEAR_NIGHT_THRESHOLD, USE_MOON_FILTER,
            DAILY_NOTIFY_HOUR, DAILY_NOTIFY_MINUTE>>
env == <<MIN_WINDOW_HOURS, api_keys>>
bot == <<job_trigger, last_update, reply>>
build == <<pc, astro, dusk, dawn, names, batches, averaged, contrib, averaged2,
           windows, report, error, cfg_at_start>>
vars == <<config, env, bot, build>>

----------------------------------------------------------------------------
(* Floats as exact rationals *)

RECURSIVE GCD(_, _)
GCD(a, b) == IF b = 0 THEN a ELSE GCD(b, a % b)

Abs(n) == IF n < 0 THEN -n ELSE n

Rat(n, d) == LET g == GCD(Abs(n), d) IN <<n \div g, d \div g>>

R(n) == <<n, 1>>

NaN == <<0, 0>>

IsNaN(x) == x[2] = 0

RLe(a, b) == ~IsNaN(a) /\ ~IsNaN(b) /\ a[1] * b[2] <= b[1] * a[2]

RAdd(a, b) == Rat(a[1] * b[2] + b[1] * a[2], a[2] * b[2])

RECURSIVE RSum(_)
RSum(s) == IF s = <<>> THEN R(0) ELSE RAdd(s[1], RSum(Tail(s)))

\* sum(xs)/len(xs)
Mean(s) == LET t == RSum(s) IN Rat(t[1], t[2] * Len(s))

\* f"{x:.0f}": the nearest integer, a tie going to the even one
Fmt0(x) ==
    LET q == x[1] \div x[2]
        r2 == 2 * (x[1] % x[2])
    IN  IF r2 < x[2] THEN q
        ELSE IF r2 > x[2] THEN q + 1
        ELSE IF q % 2 = 0 THEN q ELSE q + 1

----------------------------------------------------------------------------
(* Time *)

SecondsPerHour == 3600
MsPerSecond == 1000
DayMs == 24 * SecondsPerHour * MsPerSecond
TwilightMinutes == 90

\* int(d.timestamp()) of a datetime
Timestamp(d) == d \div MsPerSecond

\* strftime('%H:%M') of a datetime, as <<hour, minute>>
HHMM(d) == <<(d % DayMs) \div (SecondsPerHour * MsPerSecond), (d % (SecondsPerHour * MsPerSecond)) \div (60 * MsPerSecond)>>

\* dt.datetime.fromtimestamp(ts, tz)
FromTimestamp(ts) == ts * MsPerSecond

\* ascending list of a set of integers: sorted(S)
RECURSIVE Sorted(_)
Sorted(S) ==
    IF S = {} THEN <<>>
    ELSE LET m == CHOOSE x \in S : \A y \in S : x <= y
         IN  <<m>> \o Sorted(S \ {m})

----------------------------------------------------------------------------
(* Providers and aggregation: build_active_providers, fetch_all_providers *)

OptionalProviders == <<"OpenWeather", "Windy", "VisualCrossing">>

RECURSIVE KeyedNames(_, _)
KeyedNames(keys, k) ==
    IF k > Len(OptionalProviders) THEN <<>>
    ELSE (IF OptionalProviders[k] \in keys THEN <<OptionalProviders[k]>> ELSE <<>>)
         \o KeyedNames(keys, k + 1)

build_active_providers(keys) == <<"Open-Meteo">> \o KeyedNames(keys, 1)

\* The state of one provider's fetch_hours task under asyncio.gather(return_exceptions=True)
Pending == [status |-> "pending", points |-> <<>>]
Raised == [status |-> "raised", points |-> <<>>]
Returned(points) == [status |-> "returned", points |-> points]

DefaultCloud == 100
DefaultPrecip == 0

EmptyCell == [cloud |-> <<>>, precip_prob |-> <<>>]

\* a mutant: a point without a precipitation field counts as precipitation 0
AddPointPrecipZero(acc, name, point) ==
    LET ts == point.ts
        r0 == IF ts \in DOMAIN acc.results THEN acc.results
              ELSE acc.results @@ (ts :> EmptyCell)
        cloud == IF "cloud" \in DOMAIN point THEN point.cloud ELSE NaN
        r1 == IF ~IsNaN(cloud) THEN [r0 EXCEPT ![ts].cloud = Append(@, cloud)] ELSE r0
        c1 == IF ~IsNaN(cloud) THEN [acc.contrib EXCEPT ![name] = @ + 1] ELSE acc.contrib
        r2 == [r1 EXCEPT ![ts].precip_prob =
                    Append(@, IF "precip_prob" \in DOMAIN point THEN point.precip_prob
                              ELSE R(DefaultPrecip))]
    IN  [results |-> r2, contrib |-> c1]

\* the body of the loop over one batch's points (app.py:178-185)
AddPoint(acc, name, point) ==
    LET ts == point.ts
        r0 == IF ts \in DOMAIN acc.results THEN acc.results
              ELSE acc.results @@ (ts :> EmptyCell)
        cloud == IF "cloud" \in DOMAIN point THEN point.cloud ELSE NaN
        r1 == IF ~IsNaN(cloud) THEN [r0 EXCEPT ![ts].cloud = Append(@, cloud)] ELSE r0
        c1 == IF ~IsNaN(cloud) THEN [acc.contrib EXCEPT ![name] = @ + 1] ELSE acc.contrib
        r2 == IF "precip_prob" \in DOMAIN point
              THEN [r1 EXCEPT ![ts].precip_prob = Append(@, point.precip_prob)] ELSE r1
    IN  [results |-> r2, contrib |-> c1]

RECURSIVE AddBatch(_, _, _, _)
AddBatch(acc, name, points, i) ==
    IF i > Len(points) THEN acc
    ELSE AddBatch(AddPoint(acc, name, points[i]), name, points, i + 1)

\* a mutant: a failed provider discards what the providers before it contributed
AbortOnFailure(acc, name, batch) ==
    IF batch.status = "raised"
    THEN [results |-> << >>, contrib |-> [n \in DOMAIN acc.contrib |-> 0]]
    ELSE AddBatch(acc, name, batch.points, 1)

\* one iteration of "for name, batch in zip(names, batches)" (app.py:175-185)
CollectBatch(acc, name, batch) ==
    IF batch.status = "raised" THEN acc
    ELSE AddBatch(acc, name, batch.points, 1)

RECURSIVE Collect(_, _, _, _)
Collect(acc, nms, bts, k) ==
    IF k > Len(nms) THEN acc
    ELSE Collect(CollectBatch(acc, nms[k], bts[nms[k]]), nms, bts, k + 1)

\* a mutant: an hour without a cloud value is dropped although it has a precipitation value
FuseCloudOnly(results) ==
    [ts \in {t \in DOMAIN results : results[t].cloud # <<>>} |->
        [cloud |-> Mean(results[ts].cloud),
         precip_prob |-> IF results[ts].precip_prob # <<>>
                         THEN Mean(results[ts].precip_prob) ELSE R(DefaultPrecip)]]

\* the fusion loop and the final sort (app.py:186-193)
Fuse(results) ==
    [ts \in {t \in DOMAIN results : ~(results[t].cloud = <<>> /\ results[t].precip_prob = <<>>)} |->
        [cloud |-> IF results[ts].cloud # <<>>
                   THEN Mean(results[ts].cloud) ELSE R(DefaultCloud),
         precip_prob |-> IF results[ts].precip_prob # <<>>
                         THEN Mean(results[ts].precip_prob) ELSE R(DefaultPrecip)]]

fetch_all_providers(nms, bts) ==
    LET acc0 == [results |-> << >>, contrib |-> [n \in {nms[k] : k \in 1..Len(nms)} |-> 0]]
        acc == Collect(acc0, nms, bts, 1)
    IN  [averaged |-> Fuse(acc.results), contrib |-> acc.contrib]

----------------------------------------------------------------------------
(* Astronomy: night_window, moon_info, classify_moon_vs_night              *)
(*                                                                         *)
(* astral is an external library: what it returns for the report date is   *)
(* an input, astro = [sun, moon].  sun is [ok, sunset, sunrise] (ok FALSE: *)
(* sun() raised); moon is [illum, rise0, set0, rise1, set1], illum the     *)
(* percentage app.py:120-122 derives from amoon.phase, each event what     *)
(* _safe returned.                                                         *)

None == [k |-> "none", t |-> 0]
DateTime(ms) == [k |-> "datetime", t |-> ms]
\* a datetime.date: day 0 is the report date
Date(day) == [k |-> "date", t |-> day]

Found(x) == x.k # "none"

\* a mutant: the window is never collapsed
NightWindowNoCollapse(sun) ==
    IF ~sun.ok THEN [raised |-> TRUE, dusk |-> 0, dawn |-> 0]
    ELSE [raised |-> FALSE,
          dusk |-> sun.sunset + TwilightMinutes * 60 * MsPerSecond,
          dawn |-> sun.sunrise - TwilightMinutes * 60 * MsPerSecond]

night_window(sun) ==
    IF ~sun.ok THEN [raised |-> TRUE, dusk |-> 0, dawn |-> 0]
    ELSE LET dusk_astro == sun.sunset + TwilightMinutes * 60 * MsPerSecond
             dawn_astro == sun.sunrise - TwilightMinutes * 60 * MsPerSecond
         IN  IF dawn_astro <= dusk_astro
             THEN [raised |-> FALSE, dusk |-> sun.sunset, dawn |-> sun.sunrise]
             ELSE [raised |-> FALSE, dusk |-> dusk_astro, dawn |-> dawn_astro]

\* a mutant: the events of the following day are not consulted
MoonInfoSameDayOnly(moon, day) ==
    LET rise0 == moon.rise0
        set0 == moon.set0
    IN  IF Found(rise0) /\ Found(set0)
        THEN IF rise0.t < set0.t THEN << <<rise0, set0>> >>
             ELSE << <<rise0, Date(day + 1)>> >>
        ELSE IF Found(rise0) /\ ~Found(set0) THEN << <<rise0, Date(day + 1)>> >>
        ELSE IF Found(set0) /\ ~Found(rise0) THEN << <<Date(day), set0>> >>
        ELSE <<>>

\* the intervals of moon_info(date_local, tz); day is date_local (app.py:130-143)
moon_info(moon, day) ==
    LET rise0 == moon.rise0
        set0 == moon.set0
        rise1 == moon.rise1
        set1 == moon.set1
    IN  IF Found(rise0) /\ Found(set0)
        THEN IF rise0.t < set0.t THEN << <<rise0, set0>> >>
             ELSE << <<rise0, Date(day + 1)>> >>
                  \o (IF Found(set1) THEN << <<Date(day + 1), set1>> >> ELSE <<>>)
        ELSE IF Found(rise0) /\ ~Found(set0) THEN << <<rise0, Date(day + 1)>> >>
        ELSE IF Found(set0) /\ ~Found(rise0) THEN << <<Date(day), set0>> >>
        ELSE IF ~Found(rise0) /\ ~Found(set0) /\ Found(rise1) /\ Found(set1)
        THEN IF rise1.t < set1.t THEN << <<Date(day + 1), set1>> >> ELSE <<>>
        ELSE <<>>

\* max(a, dusk) and min(b, dawn) compare a datetime.datetime with their first
\* argument: Python raises TypeError when that is a datetime.date
Comparable(x) == x.k = "datetime"

Max(a, b) == IF b > a THEN b ELSE a
Min(a, b) == IF b < a THEN b ELSE a

RECURSIVE Overlaps(_, _, _, _)
Overlaps(intervals, i, dusk0, dawn0) ==
    IF i > Len(intervals) THEN <<>>
    ELSE LET s == Max(intervals[i][1].t, dusk0)
             e == Min(intervals[i][2].t, dawn0)
         IN  (IF s < e THEN << <<s, e>> >> ELSE <<>>) \o Overlaps(intervals, i + 1, dusk0, dawn0)

classify_moon_vs_night(moon, dusk0, dawn0) ==
    LET intervals == moon_info(moon, dusk0 \div DayMs)
    IN  IF \E i \in 1..Len(intervals) : ~Comparable(intervals[i][1]) \/ ~Comparable(intervals[i][2])
        THEN [raised |-> TRUE, illum |-> moon.illum, intervals |-> intervals,
              overlaps |-> <<>>, status |-> "TypeError"]
        ELSE LET overlaps == Overlaps(intervals, 1, dusk0, dawn0)
             IN  [raised |-> FALSE, illum |-> moon.illum, intervals |-> intervals,
                  overlaps |-> overlaps,
                  status |-> IF intervals # <<>> /\ overlaps = <<>> THEN "outside"
                             ELSE IF overlaps # <<>> THEN "above"
                             ELSE "nodata"]

----------------------------------------------------------------------------
(* The configuration a step reads: the module globals at that moment *)

MOON_MAX_ILLUM == 40

Cfg == [cloud |-> CLOUD_THRESHOLD, precip |-> PRECIP_THRESHOLD,
        min_hours |-> MIN_WINDOW_HOURS, clear |-> CLEAR_NIGHT_THRESHOLD,
        moon_filter |-> USE_MOON_FILTER]

----------------------------------------------------------------------------
(* filter_by_moon *)

Blocked(ts, overlaps) ==
    \E i \in 1..Len(overlaps) :
        Timestamp(overlaps[i][1]) <= ts /\ ts < Timestamp(overlaps[i][2])

filter_by_moon(avg, moon, dusk0, dawn0, cfg) ==
    IF ~cfg.moon_filter \/ DOMAIN avg = {} THEN [raised |-> FALSE, value |-> avg]
    ELSE LET m == classify_moon_vs_night(moon, dusk0, dawn0)
         IN  IF m.raised THEN [raised |-> TRUE, value |-> << >>]
             ELSE IF RLe(m.illum, R(MOON_MAX_ILLUM)) \/ m.overlaps = <<>>
             THEN [raised |-> FALSE, value |-> avg]
             ELSE [raised |-> FALSE,
                   value |-> [ts \in {t \in DOMAIN avg : ~Blocked(t, m.overlaps)} |-> avg[ts]]]

----------------------------------------------------------------------------
(* summarize_windows, compute_clear_fraction *)

Usable(cell, cfg) == RLe(cell.cloud, cfg.cloud) /\ RLe(cell.precip_prob, cfg.precip)

\* a mutant: a gap does not end the running window
MergeAcrossGaps(ts_list, i, start, prev) ==
    << <<start, ts_list[Len(ts_list)] + SecondsPerHour>> >>

\* the merge loop over allowed_ts[1:] and the append after it (app.py:202-206)
RECURSIVE MergeRuns(_, _, _, _)
MergeRuns(ts_list, i, start, prev) ==
    IF i > Len(ts_list) THEN << <<start, prev + SecondsPerHour>> >>
    ELSE IF ts_list[i] - prev = SecondsPerHour THEN MergeRuns(ts_list, i + 1, start, ts_list[i])
    ELSE << <<start, prev + SecondsPerHour>> >> \o MergeRuns(ts_list, i + 1, ts_list[i], ts_list[i])

\* (b-a)/3600.0 >= MIN_WINDOW_HOURS
LongEnough(w, cfg) == RLe(cfg.min_hours, Rat(w[2] - w[1], SecondsPerHour))

summarize_windows(avg, cfg) ==
    LET allowed_ts == Sorted({ts \in DOMAIN avg : Usable(avg[ts], cfg)})
    IN  IF allowed_ts = <<>> THEN <<>>
        ELSE SelectSeq(MergeRuns(allowed_ts, 2, allowed_ts[1], allowed_ts[1]),
                       LAMBDA w : LongEnough(w, cfg))

compute_clear_fraction(avg, dusk0, dawn0, cfg) ==
    LET hrs == {ts \in DOMAIN avg : Timestamp(dusk0) <= ts /\ ts < Timestamp(dawn0)}
        good == {ts \in hrs : Usable(avg[ts], cfg)}
    IN  IF hrs = {} THEN R(0) ELSE Rat(100 * Cardinality(good), Cardinality(hrs))

----------------------------------------------------------------------------
(* make_summary_line, fmt_report *)

Duration(w) == w[2] - w[1]

\* a mutant: among windows of equal duration the last one wins
RECURSIVE LastLongest(_, _, _)
LastLongest(ws, i, best) ==
    IF i > Len(ws) THEN best
    ELSE LastLongest(ws, i + 1, IF Duration(ws[i]) >= Duration(best) THEN ws[i] ELSE best)

\* max(windows, key=lambda w: w[1]-w[0]): the first window of the greatest duration
RECURSIVE FirstLongest(_, _, _)
FirstLongest(ws, i, best) ==
    IF i > Len(ws) THEN best
    ELSE FirstLongest(ws, i + 1, IF Duration(ws[i]) > Duration(best) THEN ws[i] ELSE best)

make_summary_line(clear_pct, wins, cfg) ==
    IF RLe(cfg.clear, clear_pct) /\ wins # <<>>
    THEN [verdict |-> "clear", pct |-> Fmt0(clear_pct)]
    ELSE IF wins # <<>>
    THEN LET w == FirstLongest(wins, 2, wins[1])
         IN  [verdict |-> "gaps", from |-> HHMM(FromTimestamp(w[1])), to |-> HHMM(FromTimestamp(w[2]))]
    ELSE [verdict |-> "overcast"]

\* the moon status line (app.py:231-239)
MoonLine(m) ==
    IF m.status = "above" /\ m.overlaps # <<>>
    THEN [illum |-> Fmt0(m.illum), kind |-> "above",
          spans |-> [i \in 1..Len(m.overlaps) |-> <<HHMM(m.overlaps[i][1]), HHMM(m.overlaps[i][2])>>]]
    ELSE IF m.status = "outside" /\ m.intervals # <<>>
    THEN [illum |-> Fmt0(m.illum), kind |-> "outside",
          spans |-> [i \in 1..Len(m.intervals) |->
                        <<m.intervals[i][1].t \div DayMs, HHMM(m.intervals[i][1].t),
                          m.intervals[i][2].t \div DayMs, HHMM(m.intervals[i][2].t)>>]]
    ELSE [illum |-> Fmt0(m.illum), kind |-> "unavailable", spans |-> <<>>]

RECURSIVE CloudsOf(_, _)
CloudsOf(avg, ts_list) ==
    IF ts_list = <<>> THEN <<>>
    ELSE <<avg[ts_list[1]].cloud>> \o CloudsOf(avg, Tail(ts_list))

\* a mutant: the mean is taken over every hour of the mapping
WindowCloudOverAll(avg, w) ==
    LET hours == CloudsOf(avg, Sorted(DOMAIN avg))
    IN  IF hours # <<>> THEN Mean(hours) ELSE R(0)

\* one window's mean cloud cover (app.py:253-254)
WindowCloud(avg, w) ==
    LET hours == CloudsOf(avg, Sorted({ts \in DOMAIN avg : w[1] <= ts /\ ts < w[2]}))
    IN  IF hours # <<>> THEN Mean(hours) ELSE R(0)

\* the branch of the report body (app.py:240-245)
BodyKind(avg, wins) ==
    IF DOMAIN avg = {} THEN "nodata"
    ELSE IF wins = <<>> THEN "cloudy"
    ELSE "listing"

NoReport == [header |-> [verdict |-> "none"], body |-> [kind |-> "none"]]

fmt_report(dusk0, dawn0, avg, wins, moon, cfg) ==
    LET clear_pct == compute_clear_fraction(avg, dusk0, dawn0, cfg)
        header == make_summary_line(clear_pct, wins, cfg)
        m == classify_moon_vs_night(moon, dusk0, dawn0)
        kind == BodyKind(avg, wins)
        night == <<HHMM(dusk0), HHMM(dawn0)>>
    IN  IF m.raised THEN [raised |-> TRUE, value |-> NoReport]
        ELSE [raised |-> FALSE,
              value |-> [header |-> header,
                         body |-> IF kind = "nodata" THEN [kind |-> kind]
                                  ELSE IF kind = "cloudy"
                                  THEN [kind |-> kind, night |-> night, moon_line |-> MoonLine(m)]
                                  ELSE [kind |-> kind, night |-> night, moon_line |-> MoonLine(m),
                                        bullets |-> [i \in 1..Len(wins) |->
                                            [from |-> HHMM(FromTimestamp(wins[i][1])),
                                             to |-> HHMM(FromTimestamp(wins[i][2])),
                                             avgc |-> Fmt0(WindowCloud(avg, wins[i]))]]]]]

----------------------------------------------------------------------------
(* build_message: the steps of one report build.  Its only suspension is   *)
(* the gather of the provider tasks; what precedes it is one step, each    *)
(* task's settling is one step, and what follows the gather is one step.   *)

EmptyMap == [ts \in {} |-> 0]

\* an exception leaving build_message: its type and the function of build_message's
\* body it came out of
Exception(exc, at) == [exc |-> exc, at |-> at]
NoError == Exception("none", "none")

\* app.py:265-268, run once the gather has returned
FinishBuild(nms, bts, moon, dusk0, dawn0, cfg) ==
    LET f == fetch_all_providers(nms, bts)
        filtered == filter_by_moon(f.averaged, moon, dusk0, dawn0, cfg)
        wins == summarize_windows(filtered.value, cfg)
        rep == fmt_report(dusk0, dawn0, filtered.value, wins, moon, cfg)
    IN  IF filtered.raised
        THEN [averaged |-> f.averaged, contrib |-> f.contrib, averaged2 |-> EmptyMap,
              windows |-> <<>>, report |-> NoReport, error |-> Exception("TypeError", "filter_by_moon")]
        ELSE [averaged |-> f.averaged, contrib |-> f.contrib, averaged2 |-> filtered.value,
              windows |-> wins, report |-> rep.value,
              error |-> IF rep.raised THEN Exception("TypeError", "fmt_report") ELSE NoError]

\* build_message up to the gather (app.py:263-265, 169-173)
BuildStart(Astro) ==
    /\ pc \in {"idle", "done"}
    /\ \E a \in Astro :
        LET nw == night_window(a.sun)
            nms == build_active_providers(api_keys)
        IN  /\ astro' = a
            /\ dusk' = nw.dusk
            /\ dawn' = nw.dawn
            /\ pc' = IF nw.raised THEN "done" ELSE "fetching"
            /\ error' = IF nw.raised THEN Exception("ValueError", "night_window") ELSE NoError
            /\ names' = IF nw.raised THEN <<>> ELSE nms
            /\ batches' = IF nw.raised THEN EmptyMap
                          ELSE [n \in {nms[k] : k \in 1..Len(nms)} |-> Pending]
    /\ averaged' = EmptyMap
    /\ contrib' = EmptyMap
    /\ averaged2' = EmptyMap
    /\ windows' = <<>>
    /\ report' = NoReport
    /\ cfg_at_start' = Cfg
    /\ UNCHANGED <<config, env, bot>>

\* one provider's fetch_hours returns its points or raises
ProviderSettle(Outcomes) ==
    /\ pc = "fetching"
    /\ \E n \in DOMAIN batches :
        /\ batches[n].status = "pending"
        /\ \E b \in Outcomes : batches' = [batches EXCEPT ![n] = b]
    /\ UNCHANGED <<config, env, bot, pc, astro, dusk, dawn, names, averaged, contrib,
                   averaged2, windows, report, error, cfg_at_start>>

\* a mutant: the gather returns as soon as one task has settled
BuildFinishEarly ==
    /\ pc = "fetching"
    /\ \E n \in DOMAIN batches : batches[n].status # "pending"
    /\ LET r == FinishBuild(names, batches, astro.moon, dusk, dawn, Cfg)
       IN  /\ averaged' = r.averaged
           /\ contrib' = r.contrib
           /\ averaged2' = r.averaged2
           /\ windows' = r.windows
           /\ report' = r.report
           /\ error' = r.error
    /\ pc' = "done"
    /\ UNCHANGED <<config, env, bot, astro, dusk, dawn, names, batches, cfg_at_start>>

\* the gather returns when every task has settled; the rest of build_message follows
BuildFinish ==
    /\ pc = "fetching"
    /\ \A n \in DOMAIN batches : batches[n].status # "pending"
    /\ LET r == FinishBuild(names, batches, astro.moon, dusk, dawn, Cfg)
       IN  /\ averaged' = r.averaged
           /\ contrib' = r.contrib
           /\ averaged2' = r.averaged2
           /\ windows' = r.windows
           /\ report' = r.report
           /\ error' = r.error
    /\ pc' = "done"
    /\ UNCHANGED <<config, env, bot, astro, dusk, dawn, names, batches, cfg_at_start>>

----------------------------------------------------------------------------
(* Operator commands.  An argument is a token: an integer literal, a       *)
(* decimal literal or other text; v is its value when it is a number.      *)

IntTok(n) == [k |-> "int", v |-> R(n)]
DecTok(n, d) == [k |-> "dec", v |-> Rat(n, d)]
TxtTok == [k |-> "txt", v |-> R(0)]

\* int(s) and float(s) succeed
IntOk(tok) == tok.k = "int"
FloatOk(tok) == tok.k \in {"int", "dec"}

\* context.args: up to MaxArgs tokens
MaxArgs == 2

ArgLists(Toks) == UNION {[1..n -> Toks] : n \in 0..MaxArgs}

\* the outcomes of a handler's successive reply_text calls: sends[i] is whether
\* the i-th call returns (TRUE) or raises; a handler makes a second call only
\* when the first raised
Sends == {<<TRUE, TRUE>>, <<FALSE, TRUE>>, <<FALSE, FALSE>>}

\* what the operator receives: the confirmation when the try block ran to its
\* end; the usage message when the try block raised, be it on the arguments or on
\* sending the confirmation; nothing when sending the usage message raised, the
\* exception then leaving the handler
Reply(accepted, sends) ==
    IF accepted /\ sends[1] THEN "ok"
    ELSE IF accepted THEN (IF sends[2] THEN "usage" ELSE "raised")
    ELSE IF sends[1] THEN "usage" ELSE "raised"

setnotify(Toks) ==
    \E args \in ArgLists(Toks), sends \in Sends :
        LET accepted == /\ Len(args) >= 2 /\ IntOk(args[1]) /\ IntOk(args[2])
                        /\ 0 <= args[1].v[1] /\ args[1].v[1] < 24
                        /\ 0 <= args[2].v[1] /\ args[2].v[1] < 60
        IN  /\ last_update' = [cmd |-> "setnotify", args |-> args]
            /\ DAILY_NOTIFY_HOUR' = IF accepted THEN args[1].v[1] ELSE DAILY_NOTIFY_HOUR
            /\ DAILY_NOTIFY_MINUTE' = IF accepted THEN args[2].v[1] ELSE DAILY_NOTIFY_MINUTE
            /\ job_trigger' = IF accepted THEN <<args[1].v[1], args[2].v[1]>> ELSE job_trigger
            /\ reply' = Reply(accepted, sends)
            /\ UNCHANGED <<CLOUD_THRESHOLD, PRECIP_THRESHOLD,
                           CLEAR_NIGHT_THRESHOLD, USE_MOON_FILTER, env, build>>

setthresholds(Toks) ==
    \E args \in ArgLists(Toks), sends \in Sends :
        LET accepted == Len(args) >= 2 /\ FloatOk(args[1]) /\ FloatOk(args[2])
        IN  /\ last_update' = [cmd |-> "setthresholds", args |-> args]
            /\ CLOUD_THRESHOLD' = IF accepted THEN args[1].v ELSE CLOUD_THRESHOLD
            /\ PRECIP_THRESHOLD' = IF accepted THEN args[2].v ELSE PRECIP_THRESHOLD
            /\ reply' = Reply(accepted, sends)
            /\ UNCHANGED <<CLEAR_NIGHT_THRESHOLD, USE_MOON_FILTER,
                           DAILY_NOTIFY_HOUR, DAILY_NOTIFY_MINUTE, job_trigger, env, build>>

setclear(Toks) ==
    \E args \in ArgLists(Toks), sends \in Sends :
        LET accepted == Len(args) >= 1 /\ FloatOk(args[1])
        IN  /\ last_update' = [cmd |-> "setclear", args |-> args]
            /\ CLEAR_NIGHT_THRESHOLD' = IF accepted THEN args[1].v ELSE CLEAR_NIGHT_THRESHOLD
            /\ reply' = Reply(accepted, sends)
            /\ UNCHANGED <<CLOUD_THRESHOLD, PRECIP_THRESHOLD,
                           USE_MOON_FILTER, DAILY_NOTIFY_HOUR, DAILY_NOTIFY_MINUTE,
                           job_trigger, env, build>>

moonfilter(Toks) ==
    \E args \in ArgLists(Toks), sends \in Sends :
        LET accepted == Len(args) >= 1 /\ IntOk(args[1])
        IN  /\ last_update' = [cmd |-> "moonfilter", args |-> args]
            /\ USE_MOON_FILTER' = IF accepted THEN args[1].v[1] = 1 ELSE USE_MOON_FILTER
            /\ reply' = Reply(accepted, sends)
            /\ UNCHANGED <<CLOUD_THRESHOLD, PRECIP_THRESHOLD,
                           CLEAR_NIGHT_THRESHOLD, DAILY_NOTIFY_HOUR, DAILY_NOTIFY_MINUTE,
                           job_trigger, env, build>>

----------------------------------------------------------------------------
(* Inputs *)

\* the datetime h:m of the report date (h >= 24: of the following day)
At(h, m) == (h * 60 + m) * 60 * MsPerSecond

\* the epoch second of the same instant
Hour(h, m) == (h * 60 + m) * 60

SunOk == [ok |-> TRUE, sunset |-> At(20, 30), sunrise |-> At(28, 30)]
SunFails == [ok |-> FALSE, sunset |-> 0, sunrise |-> 0]

Moon(illum, rise0, set0, rise1, set1) ==
    [illum |-> illum, rise0 |-> rise0, set0 |-> set0, rise1 |-> rise1, set1 |-> set1]

NoMoon == Moon(R(20), None, None, None, None)

\* a provider's points: for each timestamp of the list, in order, no point or a
\* point of one of the shapes (a shape is a point without its "ts")
RECURSIVE GridPoints(_, _)
GridPoints(ts_list, Shapes) ==
    IF ts_list = <<>> THEN {<<>>}
    ELSE LET rest == GridPoints(Tail(ts_list), Shapes)
         IN  rest \cup {<<("ts" :> ts_list[1]) @@ sh>> \o r : sh \in Shapes, r \in rest}

Outcomes(ts_list, Shapes) == {Raised} \cup {Returned(p) : p \in GridPoints(ts_list, Shapes)}

\* the hours the adapters keep for the night 22:00-03:00 (start_ts <= ts <= end_ts)
NightHours == <<Hour(22, 0), Hour(23, 0), Hour(24, 0), Hour(25, 0), Hour(26, 0), Hour(27, 0)>>

Clear == [cloud |-> R(10), precip_prob |-> R(5)]
Cloudy == [cloud |-> R(90), precip_prob |-> R(5)]
Rainy == [cloud |-> R(10), precip_prob |-> R(60)]

InitBuild ==
    /\ pc = "idle"
    /\ astro = [sun |-> SunFails, moon |-> NoMoon]
    /\ dusk = 0
    /\ dawn = 0
    /\ names = <<>>
    /\ batches = EmptyMap
    /\ averaged = EmptyMap
    /\ contrib = EmptyMap
    /\ averaged2 = EmptyMap
    /\ windows = <<>>
    /\ report = NoReport
    /\ error = NoError
    /\ cfg_at_start = Cfg

InitBot ==
    /\ job_trigger = <<DAILY_NOTIFY_HOUR, DAILY_NOTIFY_MINUTE>>
    /\ last_update = [cmd |-> "start", args |-> <<>>]
    /\ reply = "none"

\* the defaults of app.py:68-75
InitDefaults ==
    /\ CLOUD_THRESHOLD = R(35)
    /\ PRECIP_THRESHOLD = R(20)
    /\ MIN_WINDOW_HOURS = R(1)
    /\ CLEAR_NIGHT_THRESHOLD = R(60)
    /\ USE_MOON_FILTER = FALSE
    /\ DAILY_NOTIFY_HOUR = 15
    /\ DAILY_NOTIFY_MINUTE = 0

----------------------------------------------------------------------------
(* SpecAgg: the aggregation over every outcome of up to two providers *)

AggHourCount == 2

AggShapes == {[cloud |-> R(10)], [cloud |-> R(30), precip_prob |-> R(60)],
              [cloud |-> NaN, precip_prob |-> R(5)], [cloud |-> NaN],
              [precip_prob |-> R(60)], [ts \in {} |-> 0]}

AggOutcomes == Outcomes(SubSeq(NightHours, 1, AggHourCount), AggShapes)

InitAgg ==
    /\ InitDefaults
    /\ api_keys \in {{}, {"OpenWeather"}}
    /\ InitBot
    /\ InitBuild

NextAgg ==
    \/ BuildStart({[sun |-> SunOk, moon |-> NoMoon]})
    \/ ProviderSettle(AggOutcomes)
    \/ BuildFinish

SpecAgg == InitAgg /\ [][NextAgg]_vars

----------------------------------------------------------------------------
(* Claims about the aggregation *)

\* the build has run past the gather
Fused == pc = "done" /\ names # <<>>

FailedAsEmpty(bts) ==
    [n \in DOMAIN bts |-> IF bts[n].status = "raised" THEN Returned(<<>>) ELSE bts[n]]

\* C1: whichever providers fail, the aggregation returns; every failed provider
\* has contributed 0, and the consensus mapping and the contribution counts are
\* those the aggregation gives when each failed provider returns no sample instead.
C1_FailedProviderContributesNothing ==
    Fused =>
        /\ DOMAIN contrib = DOMAIN batches
        /\ \A n \in DOMAIN batches : batches[n].status = "raised" => contrib[n] = 0
        /\ averaged = fetch_all_providers(names, FailedAsEmpty(batches)).averaged
        /\ contrib = fetch_all_providers(names, FailedAsEmpty(batches)).contrib

\* a provider failed after an earlier one, and beside a later one, had contributed
C1_Witness ==
    /\ Fused
    /\ Len(names) = 2
    /\ batches[names[2]].status = "raised"
    /\ contrib[names[1]] > 0
    /\ DOMAIN averaged # {}

\* the samples the providers returned: <<provider, index in its batch>>
Samples ==
    UNION {{<<n, i>> : i \in 1..Len(batches[n].points)} : n \in DOMAIN batches}

PointOf(s) == batches[s[1]].points[s[2]]

CloudSamples(ts) ==
    {s \in Samples : PointOf(s).ts = ts /\ "cloud" \in DOMAIN PointOf(s)
                     /\ ~IsNaN(PointOf(s).cloud)}

PrecipSamples(ts) ==
    {s \in Samples : PointOf(s).ts = ts /\ "precip_prob" \in DOMAIN PointOf(s)}

RECURSIVE SumOf(_, _)
SumOf(S, field) ==
    IF S = {} THEN R(0)
    ELSE LET s == CHOOSE x \in S : TRUE
         IN  RAdd(PointOf(s)[field], SumOf(S \ {s}, field))

MeanOf(S, field) == LET t == SumOf(S, field) IN Rat(t[1], t[2] * Cardinality(S))

\* C2: the consensus mapping holds a timestamp exactly when some sample for it
\* carries a numeric cloud value or a precipitation value; its cloud is the mean
\* of the numeric cloud values (100 when there is none), its precip the mean of
\* the precipitation values (0 when there is none).
C2_ConsensusIsMeanOfSamples ==
    Fused =>
        /\ DOMAIN averaged = {PointOf(s).ts : s \in
                                {x \in Samples : CloudSamples(PointOf(x).ts) # {}
                                                 \/ PrecipSamples(PointOf(x).ts) # {}}}
        /\ \A ts \in DOMAIN averaged :
            /\ averaged[ts].cloud = IF CloudSamples(ts) = {} THEN R(100)
                                    ELSE MeanOf(CloudSamples(ts), "cloud")
            /\ averaged[ts].precip_prob = IF PrecipSamples(ts) = {} THEN R(0)
                                          ELSE MeanOf(PrecipSamples(ts), "precip_prob")

\* one hour is dropped, one is the mean of two providers, one has no cloud value
C2_Witness ==
    /\ Fused
    /\ \E s \in Samples : PointOf(s).ts \notin DOMAIN averaged
    /\ \E ts \in DOMAIN averaged :
        /\ Cardinality(CloudSamples(ts)) = 2
        /\ averaged[ts].cloud = R(20)
        /\ Cardinality(PrecipSamples(ts)) = 1

----------------------------------------------------------------------------
(* SpecWin: window extraction and the report header, over every pattern of *)
(* clear, cloudy and rainy hours one provider can return for the night,    *)
(* one half-hour timestamp included, under several threshold settings.     *)

WinHourCount == 5

\* the points of the hours, with or without a clear sample at 22:30
WinPoints ==
    {a \o b \o c : a \in GridPoints(<<Hour(22, 0)>>, {Clear, Cloudy, Rainy}),
                   b \in GridPoints(<<Hour(22, 30)>>, {Clear}),
                   c \in GridPoints(SubSeq(NightHours, 2, WinHourCount), {Clear, Cloudy, Rainy})}

WinOutcomes == {Raised} \cup {Returned(p) : p \in WinPoints}

InitWin ==
    /\ \E th \in {<<R(35), R(20)>>, <<R(10), R(60)>>} :
        CLOUD_THRESHOLD = th[1] /\ PRECIP_THRESHOLD = th[2]
    /\ MIN_WINDOW_HOURS \in {R(1), R(2)}
    /\ CLEAR_NIGHT_THRESHOLD \in {R(60), R(100)}
    /\ USE_MOON_FILTER = FALSE
    /\ DAILY_NOTIFY_HOUR = 15
    /\ DAILY_NOTIFY_MINUTE = 0
    /\ api_keys = {}
    /\ InitBot
    /\ InitBuild

NextWin ==
    \/ BuildStart({[sun |-> SunOk, moon |-> NoMoon]})
    \/ ProviderSettle(WinOutcomes)
    \/ BuildFinish

SpecWin == InitWin /\ [][NextWin]_vars

----------------------------------------------------------------------------
(* Claims about the windows and the header *)

\* build_message returned a report
Reported == pc = "done" /\ error = NoError

\* the usable hours of the mapping the windows are extracted from
UsableTs ==
    {ts \in DOMAIN averaged2 :
        /\ averaged2[ts].cloud[1] * CLOUD_THRESHOLD[2] <= CLOUD_THRESHOLD[1] * averaged2[ts].cloud[2]
        /\ averaged2[ts].precip_prob[1] * PRECIP_THRESHOLD[2]
              <= PRECIP_THRESHOLD[1] * averaged2[ts].precip_prob[2]}

\* the maximal runs <<i, j>> of the ascending list S in which successive
\* timestamps differ by exactly 3600
MaximalRuns(S) ==
    {r \in (1..Len(S)) \X (1..Len(S)) :
        /\ r[1] <= r[2]
        /\ \A k \in r[1]..(r[2] - 1) : S[k + 1] - S[k] = 3600
        /\ r[1] = 1 \/ S[r[1]] - S[r[1] - 1] # 3600
        /\ r[2] = Len(S) \/ S[r[2] + 1] - S[r[2]] # 3600}

ExpectedWindows ==
    LET S == Sorted(UsableTs)
    IN  {<<S[r[1]], S[r[2]] + 3600>> :
            r \in {x \in MaximalRuns(S) :
                     MIN_WINDOW_HOURS[1] <= (x[2] - x[1] + 1) * MIN_WINDOW_HOURS[2]}}

\* C3: the windows are, in ascending order, exactly the intervals
\* [first, last + 3600) of the maximal runs of usable hours that last at least
\* MIN_WINDOW_HOURS; none when no hour is usable; and usable hours at
\* T, T+3600, T+7200, T+14400 with a minimum of 1 give [T, T+10800), [T+14400, T+18000).
C3_WindowsAreMaximalRuns ==
    Reported =>
        /\ {windows[k] : k \in 1..Len(windows)} = ExpectedWindows
        /\ \A k \in 1..(Len(windows) - 1) : windows[k][1] < windows[k + 1][1]
        /\ UsableTs = {} => windows = <<>>
        /\ (/\ UsableTs = {Hour(22, 0), Hour(22, 0) + 3600, Hour(22, 0) + 7200, Hour(22, 0) + 14400}
            /\ MIN_WINDOW_HOURS = R(1))
           => windows = << <<Hour(22, 0), Hour(22, 0) + 10800>>,
                           <<Hour(22, 0) + 14400, Hour(22, 0) + 18000>> >>

\* the example of the claim, with an unusable hour in the gap
C3_Witness ==
    /\ Reported
    /\ UsableTs = {Hour(22, 0), Hour(22, 0) + 3600, Hour(22, 0) + 7200, Hour(22, 0) + 14400}
    /\ Hour(22, 0) + 10800 \in DOMAIN averaged2
    /\ MIN_WINDOW_HOURS = R(1)
    /\ Len(windows) = 2

\* the hours of the mapping inside [dusk, dawn), and the usable ones among them
NightTs == {ts \in DOMAIN averaged2 : dusk <= ts * 1000 /\ ts * 1000 < dawn}

\* clearFraction >= CLEAR_NIGHT_THRESHOLD, clearFraction being
\* 100 * usable / all over the hours in the night, 0 when there is none
ClearEnough ==
    IF NightTs = {} THEN CLEAR_NIGHT_THRESHOLD[1] <= 0
    ELSE CLEAR_NIGHT_THRESHOLD[1] * Cardinality(NightTs)
            <= 100 * Cardinality(NightTs \cap UsableTs) * CLEAR_NIGHT_THRESHOLD[2]

\* the chronologically first window among those of the greatest duration
LongestWindow ==
    CHOOSE k \in 1..Len(windows) :
        /\ \A j \in 1..Len(windows) : windows[j][2] - windows[j][1] <= windows[k][2] - windows[k][1]
        /\ \A j \in 1..(k - 1) : windows[j][2] - windows[j][1] < windows[k][2] - windows[k][1]

ClockOf(ts) == <<(ts % 86400) \div 3600, (ts % 3600) \div 60>>

\* C8: the header is "clear night" exactly when clearFraction >=
\* CLEAR_NIGHT_THRESHOLD and a window exists; otherwise, when a window exists,
\* "gaps possible" naming the start and end of the longest window, the first of
\* those of the greatest duration; otherwise "fully overcast".
C8_HeaderByPriority ==
    Reported =>
        /\ report.header.verdict = "clear" <=> (ClearEnough /\ windows # <<>>)
        /\ (~ClearEnough /\ windows # <<>>) =>
              /\ report.header.verdict = "gaps"
              /\ report.header.from = ClockOf(windows[LongestWindow][1])
              /\ report.header.to = ClockOf(windows[LongestWindow][2])
        /\ windows = <<>> => report.header.verdict = "overcast"

\* "gaps possible" with two windows sharing the greatest duration
C8_Witness ==
    /\ Reported
    /\ report.header.verdict = "gaps"
    /\ Len(windows) >= 2
    /\ LongestWindow = 1
    /\ \E j \in 2..Len(windows) : windows[j][2] - windows[j][1] = windows[1][2] - windows[1][1]

----------------------------------------------------------------------------
(* SpecMoon: the moon filter and the report body, over the moonrise and    *)
(* moonset lookups of the date and the following day, each found or not,   *)
(* and every pattern of clear and cloudy hours of one provider.            *)

MoonHourCount == 3

MoonPoints ==
    {a \o b \o c : a \in GridPoints(<<Hour(22, 0)>>, {Clear, Cloudy}),
                   b \in GridPoints(<<Hour(22, 30)>>, {Cloudy}),
                   c \in GridPoints(SubSeq(NightHours, 2, MoonHourCount), {Clear, Cloudy})}

MoonOutcomes == {Raised} \cup {Returned(p) : p \in MoonPoints}

NextDayEvents ==
    {<<None, None>>, <<None, DateTime(At(24 + 1, 0))>>, <<DateTime(At(24 + 11, 0)), None>>,
     <<DateTime(At(24 + 11, 0)), DateTime(At(24 + 1, 0))>>,
     <<DateTime(At(24 + 11, 0)), DateTime(At(24 + 20, 0))>>}

MoonCases ==
    {Moon(i, r0, s0, d1[1], d1[2]) :
        i \in {R(40), R(80)},
        r0 \in {None, DateTime(At(10, 0)), DateTime(At(22, 15))},
        s0 \in {None, DateTime(At(19, 0)), DateTime(At(23, 30))},
        d1 \in NextDayEvents}

InitMoon ==
    /\ CLOUD_THRESHOLD = R(35)
    /\ PRECIP_THRESHOLD = R(20)
    /\ MIN_WINDOW_HOURS = R(1)
    /\ CLEAR_NIGHT_THRESHOLD = R(60)
    /\ USE_MOON_FILTER \in BOOLEAN
    /\ DAILY_NOTIFY_HOUR = 15
    /\ DAILY_NOTIFY_MINUTE = 0
    /\ api_keys = {}
    /\ InitBot
    /\ InitBuild

NextMoon ==
    \/ BuildStart({[sun |-> SunOk, moon |-> m] : m \in MoonCases})
    \/ ProviderSettle(MoonOutcomes)
    \/ BuildFinish

SpecMoon == InitMoon /\ [][NextMoon]_vars

----------------------------------------------------------------------------
(* Moon filter and report body, checked under SpecMoon *)

\* build_message has ended and its night window was computed
Built == pc = "done" /\ astro.sun.ok

\* the intervals during which the moon is above the horizon, as pairs of
\* instants: the end of the date and the start of the following day are the
\* midnight between them
AboveHorizon ==
    LET m == astro.moon
        start_of_day == DayMs * (dusk \div DayMs)
        midnight == start_of_day + DayMs
    IN  IF Found(m.rise0) /\ Found(m.set0)
        THEN IF m.rise0.t < m.set0.t THEN {<<m.rise0.t, m.set0.t>>}
             ELSE {<<m.rise0.t, midnight>>}
                  \cup (IF Found(m.set1) THEN {<<midnight, m.set1.t>>} ELSE {})
        ELSE IF Found(m.rise0) THEN {<<m.rise0.t, midnight>>}
        ELSE IF Found(m.set0) THEN {<<start_of_day, m.set0.t>>}
        ELSE IF Found(m.rise1) /\ Found(m.set1) /\ m.rise1.t < m.set1.t
        THEN {<<midnight, m.set1.t>>}
        ELSE {}

\* their parts inside [dusk, dawn)
NightOverlap ==
    {<<Max(iv[1], dusk), Min(iv[2], dawn)>> :
        iv \in {x \in AboveHorizon : Max(x[1], dusk) < Min(x[2], dawn)}}

InOverlap(ts) ==
    \E iv \in NightOverlap : iv[1] <= ts * MsPerSecond /\ ts * MsPerSecond < iv[2]

FilterApplies ==
    /\ USE_MOON_FILTER
    /\ ~RLe(astro.moon.illum, R(MOON_MAX_ILLUM))
    /\ NightOverlap # {}

ExpectedFiltered ==
    IF FilterApplies
    THEN [ts \in {t \in DOMAIN averaged : ~InOverlap(t)} |-> averaged[ts]]
    ELSE averaged

\* C4: filter_by_moon returns the consensus mapping unchanged when the filter is
\* disabled, or the illumination is not above MOON_MAX_ILLUM, or the moon is not
\* above the horizon during the night; otherwise it returns the mapping without
\* the hours whose timestamp lies in a night-overlap interval [start, end), the
\* other hours unchanged.
C4_FilterByMoonFrame ==
    Built => /\ error.at # "filter_by_moon"
             /\ averaged2 = ExpectedFiltered

\* C5: once the night window is computed, build_message returns a report and
\* raises nothing, whatever the providers did and whichever moonrise and moonset
\* lookups found an event.
C5_BuildNeverRaises ==
    Built => /\ error = NoError
             /\ report # NoReport

\* C9: the body is the "no data" fallback exactly when the fused mapping has no
\* hours, and then there is no window and the header is "overcast"; with hours
\* but no window it is the "cloudy" text with the night window and the moon
\* line; with windows it is the listing.
C9_BodyByConsensus ==
    Reported =>
        /\ report.body.kind = "nodata" <=> DOMAIN averaged = {}
        /\ report.body.kind = "nodata" =>
                windows = <<>> /\ report.header.verdict = "overcast"
        /\ DOMAIN averaged # {} /\ windows = <<>> =>
                /\ report.body.kind = "cloudy"
                /\ report.body.night = <<HHMM(dusk), HHMM(dawn)>>
                /\ "moon_line" \in DOMAIN report.body
        /\ windows # <<>> => report.body.kind = "listing"

\* the hours of a mapping inside a window [start, end)
HoursIn(avg, w) == {ts \in DOMAIN avg : w[1] <= ts /\ ts < w[2]}

RECURSIVE CloudSum(_, _)
CloudSum(avg, S) ==
    IF S = {} THEN R(0)
    ELSE LET ts == CHOOSE x \in S : TRUE
         IN  RAdd(avg[ts].cloud, CloudSum(avg, S \ {ts}))

MeanCloud(avg, S) == LET t == CloudSum(avg, S) IN Rat(t[1], t[2] * Cardinality(S))

Listing == Reported /\ report.body.kind = "listing"

----------------------------------------------------------------------------
(* Spec: the bot.  The scheduler's report build and the operator's         *)
(* commands interleave: a command is handled while a build awaits its      *)
(* providers.                                                              *)

SunCases == {[sun |-> SunFails, moon |-> NoMoon], [sun |-> SunOk, moon |-> NoMoon]}

BotOutcomes == Outcomes(<<Hour(22, 0)>>, {Clear})

NotifyToks == {IntTok(16), IntTok(60)}
ThresholdToks == {TxtTok, DecTok(15, 2)}
ClearToks == {TxtTok, IntTok(50)}
MoonToks == {TxtTok, IntTok(1), IntTok(2)}

Init ==
    /\ InitDefaults
    /\ api_keys = {}
    /\ InitBot
    /\ InitBuild

Next ==
    \/ BuildStart(SunCases)
    \/ ProviderSettle(BotOutcomes)
    \/ BuildFinish
    \/ setnotify(NotifyToks)
    \/ setthresholds(ThresholdToks)
    \/ setclear(ClearToks)
    \/ moonfilter(MoonToks)

Spec == Init /\ [][Next]_vars

\* C6: when the sun computation of night_window fails, build_message ends
\* without an exception and with a report (the "no usable night window" result).
C6_SunFailureIsCaught ==
    pc = "done" /\ ~astro.sun.ok => error = NoError /\ report # NoReport

\* the documented usage: /setnotify <hour> <min>, /setthresholds <cloud> <precip>,
\* /setclear <percent>, /moonfilter <0|1>
MatchesUsage(u) ==
    IF u.cmd = "setnotify"
    THEN /\ Len(u.args) >= 2 /\ IntOk(u.args[1]) /\ IntOk(u.args[2])
         /\ u.args[1].v[1] \in 0..23 /\ u.args[2].v[1] \in 0..59
    ELSE IF u.cmd = "setthresholds"
    THEN Len(u.args) >= 2 /\ FloatOk(u.args[1]) /\ FloatOk(u.args[2])
    ELSE IF u.cmd = "setclear"
    THEN Len(u.args) >= 1 /\ FloatOk(u.args[1])
    ELSE /\ Len(u.args) >= 1 /\ IntOk(u.args[1])
         /\ u.args[1].v[1] \in {0, 1}

\* a step of a command handler that got its reply through
Handled == UNCHANGED build /\ reply' # "raised"

\* C7: a command whose input does not match its documented usage replies with
\* the usage message and changes no configuration field; and no command that
\* ends with the usage reply has changed a configuration field.
C7_RejectedInputKeepsConfig ==
    /\ [][Handled /\ ~MatchesUsage(last_update') =>
            reply' = "usage" /\ UNCHANGED config]_vars
    /\ [][Handled /\ reply' = "usage" => UNCHANGED config]_vars

----------------------------------------------------------------------------
(* SpecNight: the night window over sunsets of the date and sunrises of    *)
(* the following date, from half an hour to NightSpan half-hours either    *)
(* side of the midnight between them.                                      *)

NightSpan == 5

HalfHour == 30 * 60 * MsPerSecond

Sunsets == {At(24, 0) - k * HalfHour : k \in 1..NightSpan}
Sunrises == {At(24, 0) + k * HalfHour : k \in 1..NightSpan}

NightCases ==
    {[sun |-> [ok |-> TRUE, sunset |-> ss, sunrise |-> sr], moon |-> NoMoon] :
        ss \in Sunsets, sr \in Sunrises}

InitNight ==
    /\ InitDefaults
    /\ api_keys = {}
    /\ InitBot
    /\ InitBuild

NextNight ==
    \/ BuildStart(NightCases)
    \/ ProviderSettle(BotOutcomes)
    \/ BuildFinish

SpecNight == InitNight /\ [][NextNight]_vars

\* night_window has returned for the build in hand
NightComputed == pc \in {"fetching", "done"} /\ astro.sun.ok

Twilight == TwilightMinutes * 60 * MsPerSecond

\* C11: the night window has dawn > dusk, dusk >= sunset and dawn <= sunrise: it
\* is [sunset + 90 min, sunrise - 90 min) unless that leaves dawn <= dusk, and
\* then it is [sunset, sunrise).
C11_NightWindowNeverCollapses ==
    NightComputed =>
        /\ dawn > dusk
        /\ dusk >= astro.sun.sunset
        /\ dawn <= astro.sun.sunrise
        /\ IF astro.sun.sunrise - Twilight <= astro.sun.sunset + Twilight
           THEN dusk = astro.sun.sunset /\ dawn = astro.sun.sunrise
           ELSE dusk = astro.sun.sunset + Twilight /\ dawn = astro.sun.sunrise - Twilight

\* a night of exactly three hours: the twilight margins meet and the window is
\* the whole night
C11_Witness ==
    /\ NightComputed
    /\ astro.sun.sunrise - astro.sun.sunset = 2 * Twilight
    /\ dusk = astro.sun.sunset
    /\ dawn = astro.sun.sunrise

----------------------------------------------------------------------------
(* SpecNightlong: three providers, each failing, returning nothing, or     *)
(* returning the same sample for every hour of the night.                  *)

\* the same shape at every hour of the night
Uniform(shape) == [i \in 1..Len(NightHours) |-> ("ts" :> NightHours[i]) @@ shape]

CloudOnly == [cloud |-> R(10)]
CloudAndPrecip == [cloud |-> R(20), precip_prob |-> R(5)]

NightlongOutcomes ==
    {Raised, Returned(<<>>), Returned(Uniform(CloudOnly)), Returned(Uniform(CloudAndPrecip))}

InitNightlong ==
    /\ InitDefaults
    /\ api_keys = {"OpenWeather", "Windy"}
    /\ InitBot
    /\ InitBuild

NextNightlong ==
    \/ BuildStart({[sun |-> SunOk, moon |-> NoMoon]})
    \/ ProviderSettle(NightlongOutcomes)
    \/ BuildFinish

SpecNightlong == InitNightlong /\ [][NextNightlong]_vars

\* provider a returned cloud 10 for every hour, b failed, c returned cloud 20 and
\* precipitation 5 for every hour
Scenario(a, b, c) ==
    /\ pc = "done"
    /\ CLOUD_THRESHOLD = R(35)
    /\ PRECIP_THRESHOLD = R(20)
    /\ DOMAIN batches = {a, b, c}
    /\ a # b /\ a # c /\ b # c
    /\ batches[a] = Returned(Uniform(CloudOnly))
    /\ batches[b] = Raised
    /\ batches[c] = Returned(Uniform(CloudAndPrecip))

HourSet == {NightHours[i] : i \in 1..Len(NightHours)}

\* C12: with provider A returning cloud 10 and no precipitation for each of the
\* 6 hours, B failing and C returning cloud 20 and precipitation 5, under the
\* thresholds 35 and 20: every consensus hour has cloud 15 and precipitation 5,
\* every hour is usable, the only window covers the 6 hours, and the
\* contribution counts are A = 6, B = 0, C = 6.
C12_ThreeProviderNight ==
    \A a, b, c \in DOMAIN batches :
        Scenario(a, b, c) =>
            /\ error = NoError
            /\ averaged = [ts \in HourSet |-> [cloud |-> R(15), precip_prob |-> R(5)]]
            /\ \A ts \in HourSet : Usable(averaged2[ts], Cfg)
            /\ windows = << <<NightHours[1], NightHours[6] + SecondsPerHour>> >>
            /\ contrib = (a :> 6) @@ (b :> 0) @@ (c :> 6)

\* the scenario with the failing provider between the two others
C12_Witness ==
    /\ Cardinality(DOMAIN averaged) = 6
    /\ Scenario("Open-Meteo", "OpenWeather", "Windy")
    /\ Len(windows) = 1

----------------------------------------------------------------------------
(* Builds interleaved with commands, checked under Spec *)

\* what the build in hand gives under the configuration it started with
WithStartConfig == FinishBuild(names, batches, astro.moon, dusk, dawn, cfg_at_start)

\* C13: the report of a build is the one the configuration at the start of the
\* build gives, whatever commands were handled while its provider calls were in
\* flight.
C13_BuildUsesStartConfig ==
    Built =>
        /\ averaged2 = WithStartConfig.averaged2
        /\ windows = WithStartConfig.windows
        /\ report = WithStartConfig.report

----------------------------------------------------------------------------
(* The gather of the provider calls, checked under SpecNightlong *)

Unsettled == {n \in DOMAIN batches : batches[n].status = "pending"}

\* C14: while a provider call of the build has not settled, the build is still
\* at its gather: there is no consensus hour, every contribution counter is
\* zero, and no filtered mapping, window or report exists.
C14_NoFusionBeforeAllSettle ==
    Unsettled # {} =>
        /\ pc = "fetching"
        /\ DOMAIN averaged = {}
        /\ \A n \in DOMAIN contrib : contrib[n] = 0
        /\ DOMAIN averaged2 = {}
        /\ windows = <<>>
        /\ report = NoReport

\* one call has returned samples, one has failed and one is still in flight
C14_Witness ==
    /\ \E n \in DOMAIN batches : batches[n].status = "returned" /\ batches[n].points # <<>>
    /\ \E n \in DOMAIN batches : batches[n].status = "raised"
    /\ Cardinality(Unsettled) = 1

----------------------------------------------------------------------------
(* moon_info's intervals, checked under SpecMoon *)

\* the instant an interval endpoint stands for: a datetime is its own instant, a
\* date is the midnight that begins it
Instant(x) == IF x.k = "date" THEN x.t * DayMs ELSE x.t

HorizonIntervals == moon_info(astro.moon, dusk \div DayMs)

\* C15: moon_info builds [rise0, set0] when both are found and rise0 < set0;
\* [rise0, end of day] and, when set1 is found, [start of next day, set1] when
\* both are found and rise0 >= set0; [rise0, end of day] for rise0 alone;
\* [start of day, set0] for set0 alone; [start of next day, set1] when neither
\* is found on the date and rise1 < set1 are found; and nothing otherwise.
C15_HorizonIntervalsByRule ==
    Built =>
        /\ {<<Instant(HorizonIntervals[i][1]), Instant(HorizonIntervals[i][2])>> :
                i \in 1..Len(HorizonIntervals)} = AboveHorizon
        /\ Len(HorizonIntervals) = Cardinality(AboveHorizon)
        /\ \A i \in 1..Len(HorizonIntervals), j \in 1..Len(HorizonIntervals) :
                i < j => Instant(HorizonIntervals[i][1]) < Instant(HorizonIntervals[j][1])

\* the moon rises after it has set on the date and sets again on the next day:
\* two intervals
C15_Witness ==
    /\ Built
    /\ Found(astro.moon.rise0) /\ Found(astro.moon.set0) /\ Found(astro.moon.set1)
    /\ astro.moon.rise0.t >= astro.moon.set0.t
    /\ Len(HorizonIntervals) = 2

====
